---- MODULE Spec2Model ----
(***************************************************************************)
(* A model of the WYSIWYG ComponentManager of src/src/env.d.ts: the        *)
(* registry of components (id -> type, props, element), the editable DOM   *)
(* subtree it tracks, the MutationObserver that reconciles the registry    *)
(* with external DOM edits, the hidden content input that mirrors the      *)
(* editor's innerHTML, and the change listeners.                           *)
(***************************************************************************)
EXTENDS Integers, Sequences, FiniteSets, TLC

(***************************************************************************)
(* Bounds of the model.                                                    *)
(***************************************************************************)
\* DOM elements that can be alive (in the document, or still referenced) at once
MaxNodes == 4
\* distinct strings generateId can return (Date.now() and Math.random() are inputs)
MaxIds == 2
\* mutation records that can be pending delivery to the observer callback
MaxQueue == 2
\* edits of the editor's content made outside the manager's API in one behaviour
MaxExtEdits == 1
\* listeners that can subscribe through onChange
MaxListeners == 1
\* listeners of the specification of the change bus
MaxSubscribers == 2
\* endpoint requests that can be in flight at once
MaxRequests == 2
\* ids MediaService.generateId can return
MaxFiles == 2
\* rows blog_categories gets in all (AUTOINCREMENT ids 1..MaxCategories)
MaxCategories == 3
\* largest absolute value of a likes counter at which toggles are still sent
MaxLikes == 2
\* user identifiers that send like toggles
MaxUsers == 2

(***************************************************************************)
(* DOM.  Elements are numbered; EditorEl is this.editor, DocBody stands    *)
(* for the rest of the document outside the editor.                        *)
(***************************************************************************)
EditorEl == 0
DocBody == -1
NoNode == -2
NoId == 0

Nodes == 1..MaxNodes
Places == DocBody..MaxNodes
Ids == 1..MaxIds
Listeners == 1..MaxListeners

\* Element kinds of the model (tag and component class):
\*   "div" a plain block, "p" a paragraph, "figure" <figure>, "quote" .blog-quote,
\*   "wrapper" .blog-image-wrapper, "img" <img class="blog-image editable">,
\*   "figcaption", "blockquote", "cite" the text children of figure and quote.
Kinds == {"div", "p", "figure", "quote", "wrapper", "img", "figcaption", "blockquote", "cite"}
\* kinds that hold element children in the model
ContainerKinds == {"div", "figure", "quote", "wrapper"}

\* Attributes, inline styles and text of an element.  src and alt of an element
\* that is not an <img> are plain script properties: they are not serialized.
DefaultAttrs ==
    [src |-> "", alt |-> "", text |-> "", width |-> "", cls |-> {},
     float |-> "", display |-> "", mTop |-> "", mRight |-> "", mBottom |-> "", mLeft |-> ""]

Range(s) == {s[i] : i \in 1..Len(s)}

InsertAt(s, i, x) == SubSeq(s, 1, i) \o <<x>> \o SubSeq(s, i + 1, Len(s))

RemoveFrom(s, x) == SelectSeq(s, LAMBDA y : y # x)

EmptyDom ==
    [ch   |-> [p \in Places |-> <<>>],
     kind |-> [n \in Nodes |-> "none"],
     mk   |-> [n \in Nodes |-> NoId],
     at   |-> [n \in Nodes |-> DefaultAttrs]]

Parent(d, n) ==
    IF \E p \in Places : n \in Range(d.ch[p])
    THEN CHOOSE p \in Places : n \in Range(d.ch[p])
    ELSE NoNode

RECURSIVE RootOf(_, _)
RootOf(d, n) ==
    IF n \in {EditorEl, DocBody} \/ Parent(d, n) = NoNode THEN n ELSE RootOf(d, Parent(d, n))

\* node.isConnected
IsConnected(d, n) == RootOf(d, n) \in {EditorEl, DocBody}

\* this.editor.contains(n), n # editor
InEditor(d, n) == n \in Nodes /\ RootOf(d, n) = EditorEl

RECURSIVE AncestorsIncl(_, _)
AncestorsIncl(d, n) ==
    IF n \in {EditorEl, DocBody, NoNode} THEN {n} \ {NoNode}
    ELSE {n} \cup AncestorsIncl(d, Parent(d, n))

\* the descendants of p in document order
RECURSIVE DescOf(_, _), DescList(_, _)
DescOf(d, p) == DescList(d, d.ch[p])
DescList(d, s) ==
    IF s = <<>> THEN <<>>
    ELSE <<Head(s)>> \o DescOf(d, Head(s)) \o DescList(d, Tail(s))

\* root.querySelectorAll for a selector matching the kinds ks
QuerySelectorAll(d, root, ks) == SelectSeq(DescOf(d, root), LAMBDA n : d.kind[n] \in ks)

\* root.querySelector: the first match in document order, or null
QuerySelector(d, root, ks) ==
    LET all == QuerySelectorAll(d, root, ks)
    IN IF all = <<>> THEN NoNode ELSE Head(all)

\* el.closest('[data-component-id]') is not null
HasMarkedAncestorOrSelf(d, n) == \E a \in AncestorsIncl(d, n) \cap Nodes : d.mk[a] # NoId

FreeNodes(d) == {n \in Nodes : d.kind[n] = "none"}

\* document.createElement: the next unused element
NewNode(d) == CHOOSE n \in FreeNodes(d) : \A m \in FreeNodes(d) : n <= m

CreateElement(d, n, k, m, a) ==
    [d EXCEPT !.kind[n] = k, !.mk[n] = m, !.at[n] = a]

\* parent.insertBefore / appendChild at child index i (0 = first)
Attach(d, n, p, i) == [d EXCEPT !.ch[p] = InsertAt(@, i, n)]

\* node.remove(): a no-op when the node has no parent
Detach(d, n) ==
    IF Parent(d, n) = NoNode THEN d
    ELSE [d EXCEPT !.ch[Parent(d, n)] = RemoveFrom(@, n)]

(***************************************************************************)
(* Serialization: element.innerHTML.  Element identity is lost; script     *)
(* properties that are not attributes are lost.                            *)
(***************************************************************************)
VisibleAttrs(d, n) ==
    IF d.kind[n] = "img" THEN d.at[n]
    ELSE [d.at[n] EXCEPT !.src = "", !.alt = ""]

RECURSIVE InnerHTML(_, _)
InnerHTML(d, p) ==
    [i \in 1..Len(d.ch[p]) |->
        LET n == d.ch[p][i]
        IN [tag |-> d.kind[n], id |-> d.mk[n], a |-> VisibleAttrs(d, n), inner |-> InnerHTML(d, n)]]

\* img.src reads the URL resolved against the document base
ResolveUrl(s) == IF s = "a.png" THEN "https://host/a.png" ELSE s

(***************************************************************************)
(* State.                                                                  *)
(***************************************************************************)
VARIABLES
    dom,              \* the document: children, kind, marker (data-component-id), attributes
    editor,           \* this.editor: EditorEl once init ran, NoNode (null) before
    contentInput,     \* this.contentInput.value
    components,       \* this.components: a map from id to ComponentData
    changeListeners,  \* this.changeListeners, in insertion order
    queue,            \* mutation records the observer has not yet been called with
    extEdits,         \* how many edits were made outside the API so far
    last              \* the last step: operation, id, arguments, result, listener calls

(***************************************************************************)
(* The server side of the CMS: the media service of the test suite, the D1 *)
(* database behind the endpoints, and the endpoint requests in flight.     *)
(***************************************************************************)
VARIABLES
    files,            \* MediaService.files: a map from id to MediaFile
    db,               \* the database: one field per table the endpoints use
    requests          \* the endpoint requests in flight, by connection

client == <<dom, editor, contentInput, components, changeListeners, queue, extEdits, last>>
server == <<files, db, requests>>
vars == <<dom, editor, contentInput, components, changeListeners, queue, extEdits, last,
          files, db, requests>>

Step(op, id, ok, ret, calls) ==
    [op |-> op, id |-> id, ok |-> ok, ret |-> ret, calls |-> calls, args |-> <<>>]

\* the step of a call that was made with the argument object a
WithArgs(step, a) == [step EXCEPT !.args = a]

\* the last step was not a call of the manager's API
Env == Step("env", NoId, TRUE, NoId, <<>>)

\* connections over which a client sends one request at a time
RequestIds == 1..MaxRequests

\* a connection with no request in flight
Idle == [op |-> "none", pc |-> "idle", args |-> <<>>, locals |-> <<>>, response |-> "none"]

NoRequests == [r \in RequestIds |-> Idle]

\* new Map(): MediaService.files before the first upload
NoFiles == [k \in {} |-> 0]

\* the tables right after the migrations ran
EmptyDb ==
    [admin_sessions       |-> [t \in {} |-> 0],
     blog_categories      |-> [c \in {} |-> 0],
     last_category_id     |-> 0,
     blog_post_categories |-> {},
     blog_likes           |-> [k \in {} |-> 0],
     blog_post_engagement |-> [p \in {} |-> 0]]

\* no upload was made, no table has a row, no request is in flight
ServerIdle ==
    /\ files = NoFiles
    /\ db = EmptyDb
    /\ requests = NoRequests

(***************************************************************************)
(* The registry: registerElement, registerImage and what they derive.      *)
(***************************************************************************)
\* generateId(): `cmp-${Date.now()}-${Math.random()...}`.  The clock and the random
\* number are inputs of the call; nothing in it looks at the ids already in use.
GenerateId == Ids

NoProps == [k \in {} |-> ""]

Prop(cond, k, v) == IF cond THEN (k :> v) ELSE NoProps

\* { ...props, ...updates }
Merge(props, updates) ==
    [k \in DOMAIN props \cup DOMAIN updates |->
        IF k \in DOMAIN updates THEN updates[k] ELSE props[k]]

\* this.components.set(id, data)
MapSet(c, id, data) == [k \in DOMAIN c \cup {id} |-> IF k = id THEN data ELSE c[k]]

\* this.components.delete(id)
MapDelete(c, id) == [k \in DOMAIN c \ {id} |-> c[k]]

ComponentData(id, type, props, element) ==
    [id |-> id, type |-> type, props |-> props, element |-> element]

DetectComponentType(d, n) ==
    IF d.kind[n] = "quote" THEN "quote"
    ELSE IF d.kind[n] = "figure" THEN "figure"
    ELSE "image"

DetectImageLayout(d, n) ==
    IF "float-left" \in d.at[n].cls THEN "float-left"
    ELSE IF "float-right" \in d.at[n].cls THEN "float-right"
    ELSE IF "center" \in d.at[n].cls THEN "center"
    ELSE IF \E a \in AncestorsIncl(d, n) \cap Nodes : d.kind[a] = "figure" THEN "figure"
    ELSE "inline"

ExtractProps(d, n, type) ==
    LET img     == IF d.kind[n] = "img" THEN n ELSE QuerySelector(d, n, {"img"})
        caption == QuerySelector(d, n, {"figcaption"})
        bq      == QuerySelector(d, n, {"blockquote"})
        cite    == QuerySelector(d, n, {"cite"})
    IN CASE type = "image" ->
              IF img # NoNode
              THEN [src |-> ResolveUrl(d.at[img].src), alt |-> d.at[img].alt, width |-> d.at[img].width]
              ELSE NoProps
         [] type = "figure" ->
              Prop(img # NoNode, "src", ResolveUrl(d.at[img].src))
              @@ Prop(img # NoNode, "alt", d.at[img].alt)
              @@ Prop(caption # NoNode, "caption", d.at[caption].text)
         [] type = "quote" ->
              Prop(img # NoNode, "avatarSrc", ResolveUrl(d.at[img].src))
              @@ Prop(bq # NoNode, "quote", d.at[bq].text)
              @@ Prop(cite # NoNode, "author", d.at[cite].text)
         [] OTHER -> NoProps

\* registerElement(element) with generateId() returning id
RegisterElement(dc, n, id) ==
    LET d1   == [dc.d EXCEPT !.mk[n] = id]
        type == DetectComponentType(d1, n)
    IN [d |-> d1, c |-> MapSet(dc.c, id, ComponentData(id, type, ExtractProps(d1, n, type), n))]

\* registerImage(img) with generateId() returning id
RegisterImage(dc, n, id) ==
    LET d1 == [dc.d EXCEPT !.mk[n] = id]
        props == [src    |-> ResolveUrl(d1.at[n].src),
                  alt    |-> d1.at[n].alt,
                  width  |-> IF d1.at[n].width = "" THEN "100%" ELSE d1.at[n].width,
                  layout |-> DetectImageLayout(d1, n)]
    IN [d |-> d1, c |-> MapSet(dc.c, id, ComponentData(id, "image", props, n))]

IsComponentElement(d, n) == d.kind[n] \in {"quote", "figure", "wrapper"}

(***************************************************************************)
(* scanExistingComponents.  generateId is called once per registered       *)
(* element; idOf gives the string it returns for each.                     *)
(***************************************************************************)
RECURSIVE ScanElements(_, _, _)
ScanElements(s, idOf, dc) ==
    IF s = <<>> THEN dc
    ELSE ScanElements(Tail(s), idOf,
            IF dc.d.mk[Head(s)] = NoId THEN RegisterElement(dc, Head(s), idOf[Head(s)]) ELSE dc)

RECURSIVE ScanImages(_, _, _)
ScanImages(s, idOf, dc) ==
    IF s = <<>> THEN dc
    ELSE ScanImages(Tail(s), idOf,
            IF ~HasMarkedAncestorOrSelf(dc.d, Head(s))
            THEN RegisterImage(dc, Head(s), idOf[Head(s)])
            ELSE dc)

ScanExistingComponents(dc, idOf) ==
    LET selected == QuerySelectorAll(dc.d, EditorEl, {"quote"})
                    \o QuerySelectorAll(dc.d, EditorEl, {"wrapper"})
                    \o QuerySelectorAll(dc.d, EditorEl, {"figure"})
        dc1 == ScanElements(selected, idOf, dc)
    IN ScanImages(QuerySelectorAll(dc1.d, EditorEl, {"img"}), idOf, dc1)

(***************************************************************************)
(* The MutationObserver callback of setupMutationObserver, for one record. *)
(***************************************************************************)
ObserveRecord(dc, rec, id) ==
    LET n == rec.n
    IN IF rec.t = "rem"
       THEN IF dc.d.mk[n] # NoId THEN [dc EXCEPT !.c = MapDelete(@, dc.d.mk[n])] ELSE dc
       ELSE LET dc1 == IF IsComponentElement(dc.d, n) /\ dc.d.mk[n] = NoId
                       THEN RegisterElement(dc, n, id) ELSE dc
            IN IF dc1.d.kind[n] = "img" /\ dc1.d.mk[n] = NoId
               THEN RegisterImage(dc1, n, id) ELSE dc1

RECURSIVE ObserveAll(_, _, _, _)
ObserveAll(q, i, idAt, dc) ==
    IF i > Len(q) THEN dc
    ELSE ObserveAll(q, i + 1, idAt, ObserveRecord(dc, q[i], idAt[i]))

\* A mutation whose target is t is recorded when t is in the observed subtree, or
\* in a subtree removed from it since the last callback (transient observers).
Observed(d, q, t) ==
    \/ t = EditorEl
    \/ InEditor(d, t)
    \/ \E i \in 1..Len(q) : q[i].t = "rem" /\ q[i].n \in AncestorsIncl(d, t)

Added(n) == [t |-> "add", n |-> n]
Removed(n) == [t |-> "rem", n |-> n]

\* the records a DOM change under target t appends to the queue
Record(d, q, t, rec) == IF editor = EditorEl /\ Observed(d, q, t) THEN q \o <<rec>> ELSE q

\* Elements of a detached tree that no record and no pending mutation record
\* refers to are unreachable: the model frees them, as garbage collection does.
Referenced(c, q) == {c[k].element : k \in DOMAIN c} \cup {q[i].n : i \in 1..Len(q)}

Alive(d, c, q) ==
    {n \in Nodes : \/ IsConnected(d, n)
                   \/ \E m \in Referenced(c, q) \cap Nodes : RootOf(d, m) = RootOf(d, n)}

Collect(d, c, q) ==
    LET dead == {n \in Nodes : d.kind[n] # "none"} \ Alive(d, c, q)
    IN [ch   |-> [p \in Places |-> IF p \in dead THEN <<>> ELSE d.ch[p]],
        kind |-> [n \in Nodes |-> IF n \in dead THEN "none" ELSE d.kind[n]],
        mk   |-> [n \in Nodes |-> IF n \in dead THEN NoId ELSE d.mk[n]],
        at   |-> [n \in Nodes |-> IF n \in dead THEN DefaultAttrs ELSE d.at[n]]]

\* the document, the registry and the pending records after a step
Effects(d, c, q) ==
    /\ Len(q) <= MaxQueue
    /\ dom' = Collect(d, c, q)
    /\ components' = c
    /\ queue' = q

(***************************************************************************)
(* Initial states: a constructed, not yet initialized manager and the      *)
(* markup the page was loaded with.                                        *)
(***************************************************************************)
ImgAttrs == [DefaultAttrs EXCEPT !.src = "a.png", !.alt = "cat"]

KindAttrs(k) == IF k = "img" THEN ImgAttrs ELSE DefaultAttrs

\* a new element of kind k with marker m, appended to p
WithNode(d, k, m, p) ==
    LET n == NewNode(d) IN Attach(CreateElement(d, n, k, m, KindAttrs(k)), n, p, Len(d.ch[p]))

InitialDoms ==
    { EmptyDom,
      WithNode(EmptyDom, "img", NoId, EditorEl),
      WithNode(WithNode(EmptyDom, "figure", NoId, EditorEl), "img", NoId, 1),
      WithNode(WithNode(EmptyDom, "figure", 1, EditorEl), "img", NoId, 1),
      WithNode(WithNode(EmptyDom, "div", NoId, EditorEl), "figure", NoId, 1) }

\* the page around the editor holds one more element, which the manager never touches
WithPage(d) == Attach(CreateElement(d, MaxNodes, "p", NoId, DefaultAttrs), MaxNodes, DocBody, 0)

Init ==
    /\ dom \in {WithPage(d) : d \in InitialDoms}
    /\ editor = NoNode
    /\ contentInput = <<>>
    /\ components = [k \in {} |-> 0]
    /\ changeListeners = <<>>
    /\ queue = <<>>
    /\ extEdits = 0
    /\ last = Env
    /\ ServerIdle

(***************************************************************************)
(* init(editor, contentInput)                                              *)
(***************************************************************************)
InitManager ==
    /\ last = Env
    /\ editor = NoNode
    /\ editor' = EditorEl
    /\ \E idOf \in [Nodes -> GenerateId] :
          LET dc == ScanExistingComponents([d |-> dom, c |-> components], idOf)
          IN Effects(dc.d, dc.c, queue)
    /\ last' = Env
    /\ UNCHANGED <<contentInput, changeListeners, extEdits>>
    /\ UNCHANGED server

(***************************************************************************)
(* Edits of the editor's content made outside the manager's API (typing,   *)
(* paste, scripts).  They are DOM changes under an element of the editor.  *)
(***************************************************************************)
ExtKinds == {"figure", "img"}

\* the marker of pasted markup: any string generateId may also return
PastedIds == Ids

\* where an external edit puts an element: in the editor, or in a plain block inside it
ExtParents(d) == {EditorEl} \cup {n \in Nodes : InEditor(d, n) /\ d.kind[n] = "div"}

\* insert a new element of kind k carrying marker m (NoId: none; an id: pasted markup)
ExtInsert(k, m, p) ==
    /\ last = Env
    /\ editor = EditorEl
    /\ extEdits < MaxExtEdits
    /\ extEdits' = extEdits + 1
    /\ FreeNodes(dom) # {}
    /\ p \in ExtParents(dom)
    /\ m # NoId => k = "figure"
    /\ Effects(WithNode(dom, k, m, p), components, Record(dom, queue, p, Added(NewNode(dom))))
    /\ last' = Env
    /\ UNCHANGED <<editor, contentInput, changeListeners>>
    /\ UNCHANGED server

\* insert a new plain block that already contains a new element of kind k
ExtInsertNested(k, p) ==
    /\ last = Env
    /\ editor = EditorEl
    /\ extEdits < MaxExtEdits
    /\ extEdits' = extEdits + 1
    /\ Cardinality(FreeNodes(dom)) >= 2
    /\ p \in ExtParents(dom)
    /\ LET n  == NewNode(dom)
           d1 == CreateElement(dom, n, "div", NoId, DefaultAttrs)
           d2 == WithNode(d1, k, NoId, n)
       IN Effects(Attach(d2, n, p, Len(dom.ch[p])), components, Record(dom, queue, p, Added(n)))
    /\ last' = Env
    /\ UNCHANGED <<editor, contentInput, changeListeners>>
    /\ UNCHANGED server

\* remove an element of the editor
ExtRemove(n) ==
    /\ last = Env
    /\ editor = EditorEl
    /\ extEdits < MaxExtEdits
    /\ extEdits' = extEdits + 1
    /\ InEditor(dom, n)
    /\ Effects(Detach(dom, n), components, Record(dom, queue, Parent(dom, n), Removed(n)))
    /\ last' = Env
    /\ UNCHANGED <<editor, contentInput, changeListeners>>
    /\ UNCHANGED server

\* move an element of the editor to the end of the editor: editor.appendChild(n)
ExtMove(n) ==
    /\ last = Env
    /\ editor = EditorEl
    /\ extEdits < MaxExtEdits
    /\ extEdits' = extEdits + 1
    /\ InEditor(dom, n)
    /\ LET d1 == Detach(dom, n)
           q1 == Record(dom, queue, Parent(dom, n), Removed(n))
       IN Effects(Attach(d1, n, EditorEl, Len(d1.ch[EditorEl])), components,
                  Record(d1, q1, EditorEl, Added(n)))
    /\ last' = Env
    /\ UNCHANGED <<editor, contentInput, changeListeners>>
    /\ UNCHANGED server

(***************************************************************************)
(* The observer callback runs with every record queued since its last run. *)
(***************************************************************************)
Flush ==
    /\ last = Env
    /\ queue # <<>>
    /\ \E idAt \in [1..Len(queue) -> GenerateId] :
          LET dc == ObserveAll(queue, 1, idAt, [d |-> dom, c |-> components])
          IN Effects(dc.d, dc.c, <<>>)
    /\ last' = Env
    /\ UNCHANGED <<editor, contentInput, changeListeners, extEdits>>
    /\ UNCHANGED server

(***************************************************************************)
(* The manager's API.                                                      *)
(***************************************************************************)
\* a syncContent() that does not write the content input
SyncContentSkipped(d) == contentInput

\* syncContent(): the value of the content input afterwards
SyncContent(d) == IF editor = EditorEl THEN InnerHTML(d, EditorEl) ELSE contentInput

\* notifyListeners(id, data): the calls made, in the order of the listener set
NotifyListeners(id, data) ==
    [i \in 1..Len(changeListeners) |-> [listener |-> changeListeners[i], id |-> id, data |-> data]]

\* JavaScript truthiness of props[k]
Truthy(props, k) == k \in DOMAIN props /\ props[k] # ""

\* an applyUpdatesToDOM that looks the image up in the whole editor
ApplyUpdatesToDocument(d, comp) ==
    LET img == QuerySelector(d, EditorEl, {"img"})
    IN IF comp.type = "figure" /\ img # NoNode /\ Truthy(comp.props, "src")
       THEN [d EXCEPT !.at[img].src = comp.props["src"]]
       ELSE d

ApplyUpdatesToDOM(d, comp) ==
    LET el      == comp.element
        props   == comp.props
        img     == QuerySelector(d, el, {"img"})
        caption == QuerySelector(d, el, {"figcaption"})
        bq      == QuerySelector(d, el, {"blockquote"})
        cite    == QuerySelector(d, el, {"cite"})
        Set(dd, n, cond, f, v) == IF n # NoNode /\ cond THEN [dd EXCEPT !.at[n][f] = v] ELSE dd
    IN CASE comp.type = "figure" ->
              LET d1 == Set(d, img, Truthy(props, "src"), "src", props["src"])
                  d2 == Set(d1, img, Truthy(props, "alt"), "alt", props["alt"])
              IN Set(d2, caption, "caption" \in DOMAIN props, "text", props["caption"])
         [] comp.type = "quote" ->
              LET d1 == Set(d, img, Truthy(props, "avatarSrc"), "src", props["avatarSrc"])
                  d2 == Set(d1, bq, Truthy(props, "quote"), "text", props["quote"])
              IN Set(d2, cite, Truthy(props, "author"), "text", props["author"])
         [] OTHER -> d

\* updateComponent(id, updates)
UpdateComponent(id, updates) ==
    /\ last = Env
    /\ IF id \notin DOMAIN components \/ components[id].element = NoNode
       THEN /\ last' = Step("updateComponent", id, FALSE, NoId, <<>>)
            /\ UNCHANGED <<dom, editor, contentInput, components, changeListeners, queue, extEdits>>
       ELSE LET comp == [components[id] EXCEPT !.props = Merge(@, updates)]
                d1   == ApplyUpdatesToDOM(dom, comp)
            IN /\ Effects(d1, MapSet(components, id, comp), queue)
               /\ contentInput' = SyncContent(d1)
               /\ last' = WithArgs(Step("updateComponent", id, TRUE, NoId,
                                         NotifyListeners(id, comp)), updates)
               /\ UNCHANGED <<editor, changeListeners, extEdits>>
    /\ UNCHANGED server

LayoutClasses == {"float-left", "float-right", "center", "inline"}

\* a layout branch that toggles the layout class instead of adding it
ApplyLayoutToggle(a, layout) ==
    [a EXCEPT !.cls = IF layout \in @ THEN @ \ {layout} ELSE @ \cup {layout}]

\* the layout branch of updateImage on element attributes a
ApplyLayout(a, layout) ==
    LET a1 == [a EXCEPT !.cls = (@ \ LayoutClasses)
                                \cup (IF layout \notin {"inline", "figure"} THEN {layout} ELSE {})]
    IN CASE layout = "float-left" ->
              [a1 EXCEPT !.float = "left", !.mRight = "1rem", !.mBottom = "0.5rem"]
         [] layout = "float-right" ->
              [a1 EXCEPT !.float = "right", !.mLeft = "1rem", !.mBottom = "0.5rem"]
         [] layout = "center" ->
              [a1 EXCEPT !.float = "", !.display = "block",
                         !.mTop = "1rem", !.mRight = "auto", !.mBottom = "1rem", !.mLeft = "auto"]
         [] OTHER -> [a1 EXCEPT !.float = "", !.display = ""]

\* the element updateImage patches: the component's element itself for type image
ImageOf(d, comp) ==
    IF comp.type = "image" THEN comp.element ELSE QuerySelector(d, comp.element, {"img"})

\* an updateImage that merges props into the record before it looks for the image
UpdateImageMergeFirst(id, props) ==
    /\ last = Env
    /\ IF id \notin DOMAIN components
       THEN /\ last' = Step("updateImage", id, FALSE, NoId, <<>>)
            /\ UNCHANGED <<dom, editor, contentInput, components, changeListeners, queue, extEdits>>
       ELSE LET comp == [components[id] EXCEPT !.props = Merge(@, props)]
                img  == ImageOf(dom, components[id])
                d1   == IF img = NoNode THEN dom
                        ELSE [dom EXCEPT !.at[img].src = props["src"]]
            IN /\ Effects(d1, MapSet(components, id, comp), queue)
               /\ contentInput' = IF img = NoNode THEN contentInput ELSE SyncContent(d1)
               /\ last' = Step("updateImage", id, img # NoNode, NoId,
                               IF img = NoNode THEN <<>> ELSE NotifyListeners(id, comp))
               /\ UNCHANGED <<editor, changeListeners, extEdits>>
    /\ UNCHANGED server

\* updateImage(id, props)
UpdateImage(id, props) ==
    /\ last = Env
    /\ IF id \notin DOMAIN components \/ ImageOf(dom, components[id]) = NoNode
       THEN /\ last' = Step("updateImage", id, FALSE, NoId, <<>>)
            /\ UNCHANGED <<dom, editor, contentInput, components, changeListeners, queue, extEdits>>
       ELSE LET img  == ImageOf(dom, components[id])
                a0   == dom.at[img]
                a1   == IF "src" \in DOMAIN props THEN [a0 EXCEPT !.src = props["src"]] ELSE a0
                a2   == IF "alt" \in DOMAIN props THEN [a1 EXCEPT !.alt = props["alt"]] ELSE a1
                a3   == IF "width" \in DOMAIN props THEN [a2 EXCEPT !.width = props["width"]] ELSE a2
                a4   == IF "layout" \in DOMAIN props THEN ApplyLayout(a3, props["layout"]) ELSE a3
                d1   == [dom EXCEPT !.at[img] = a4]
                comp == [components[id] EXCEPT !.props = Merge(@, props)]
            IN /\ Effects(d1, MapSet(components, id, comp), queue)
               /\ contentInput' = SyncContent(d1)
               /\ last' = WithArgs(Step("updateImage", id, TRUE, NoId,
                                         NotifyListeners(id, comp)), props)
               /\ UNCHANGED <<editor, changeListeners, extEdits>>
    /\ UNCHANGED server

\* a removeComponent that calls syncContent() before it looks the id up
RemoveComponentSyncFirst(id) ==
    /\ last = Env
    /\ IF id \notin DOMAIN components \/ components[id].element = NoNode
       THEN /\ last' = Step("removeComponent", id, FALSE, NoId, <<>>)
            /\ contentInput' = SyncContent(dom)
            /\ UNCHANGED <<dom, editor, components, changeListeners, queue, extEdits>>
       ELSE LET el == components[id].element
                d1 == Detach(dom, el)
            IN /\ Effects(d1, MapDelete(components, id),
                          IF Parent(dom, el) = NoNode THEN queue
                          ELSE Record(dom, queue, Parent(dom, el), Removed(el)))
               /\ contentInput' = SyncContent(d1)
               /\ last' = Step("removeComponent", id, TRUE, NoId, <<>>)
               /\ UNCHANGED <<editor, changeListeners, extEdits>>
    /\ UNCHANGED server

\* removeComponent(id)
RemoveComponent(id) ==
    /\ last = Env
    /\ IF id \notin DOMAIN components \/ components[id].element = NoNode
       THEN /\ last' = Step("removeComponent", id, FALSE, NoId, <<>>)
            /\ UNCHANGED <<dom, editor, contentInput, components, changeListeners, queue, extEdits>>
       ELSE LET el == components[id].element
                d1 == Detach(dom, el)
            IN /\ Effects(d1, MapDelete(components, id),
                          IF Parent(dom, el) = NoNode THEN queue
                          ELSE Record(dom, queue, Parent(dom, el), Removed(el)))
               /\ contentInput' = SyncContent(d1)
               /\ last' = Step("removeComponent", id, TRUE, NoId, <<>>)
               /\ UNCHANGED <<editor, changeListeners, extEdits>>
    /\ UNCHANGED server

\* the text cursor: none, or the range's start as (container, child index)
NoSelection == <<NoNode, 0>>

Selections(d) ==
    {NoSelection} \cup
    {<<p, i>> : p \in {q \in Places : q \in {DocBody, EditorEl}
                                      \/ (q \in Nodes /\ IsConnected(d, q) /\ d.kind[q] \in ContainerKinds)},
                i \in 0..MaxNodes}

\* insertImage(src, alt, options) with the selection sel and generateId() returning id
InsertImage(src, alt, options, sel, id) ==
    /\ last = Env
    /\ IF editor = NoNode
       THEN /\ last' = Step("insertImage", NoId, FALSE, NoId, <<>>)
            /\ UNCHANGED <<dom, editor, contentInput, components, changeListeners, queue, extEdits>>
       ELSE /\ Cardinality(FreeNodes(dom)) >= 3
            /\ sel \in Selections(dom)
            /\ sel # NoSelection => sel[2] <= Len(dom.ch[sel[1]])
            /\ LET width   == IF Truthy(options, "width") THEN options["width"] ELSE "100%"
                   layout  == IF Truthy(options, "layout") THEN options["layout"] ELSE "inline"
                   wrapper == NewNode(dom)
                   d1 == CreateElement(dom, wrapper, "wrapper", id,
                            [DefaultAttrs EXCEPT !.mTop = "1rem", !.mBottom = "1rem",
                                                 !.mRight = "0", !.mLeft = "0"])
                   img == NewNode(d1)
                   d2 == Attach(CreateElement(d1, img, "img", NoId,
                                   [DefaultAttrs EXCEPT !.src = src, !.alt = alt,
                                        !.cls = IF layout # "inline" THEN {layout} ELSE {},
                                        !.width = width, !.display = "block"]),
                                img, wrapper, 0)
                   place == IF sel = NoSelection THEN EditorEl ELSE sel[1]
                   d3 == IF sel = NoSelection
                         THEN Attach(d2, wrapper, EditorEl, Len(d2.ch[EditorEl]))
                         ELSE Attach(d2, wrapper, sel[1], sel[2])
                   q3 == Record(d2, queue, place, Added(wrapper))
                   par == NewNode(d3)
                   at  == CHOOSE j \in 1..Len(d3.ch[place]) : d3.ch[place][j] = wrapper
                   d4 == Attach(CreateElement(d3, par, "p", NoId, DefaultAttrs), par, place, at)
                   q4 == Record(d3, q3, place, Added(par))
                   data == ComponentData(id, "image",
                              [src |-> src, alt |-> alt, width |-> width, layout |-> layout], wrapper)
               IN /\ Effects(d4, MapSet(components, id, data), q4)
                  /\ contentInput' = SyncContent(d4)
                  /\ last' = WithArgs(Step("insertImage", id, TRUE, id, <<>>),
                                  options @@ [src |-> src, alt |-> alt])
            /\ UNCHANGED <<editor, changeListeners, extEdits>>
    /\ UNCHANGED server

\* element.cloneNode(true): attributes and descendants are copied, script
\* properties that are not attributes are not
RECURSIVE CloneNode(_, _), CloneChildren(_, _, _)
CloneNode(d, n) ==
    LET c  == NewNode(d)
        d1 == CreateElement(d, c, d.kind[n], d.mk[n], VisibleAttrs(d, n))
    IN [d |-> CloneChildren(d1, c, d.ch[n]), root |-> c]
CloneChildren(d, c, s) ==
    IF s = <<>> THEN d
    ELSE LET r == CloneNode(d, Head(s))
         IN CloneChildren(Attach(r.d, r.root, c, Len(r.d.ch[c])), c, Tail(s))

\* duplicateComponent(id) with generateId() returning newId
DuplicateComponent(id, newId) ==
    /\ last = Env
    /\ IF id \notin DOMAIN components \/ components[id].element = NoNode
       THEN /\ last' = Step("duplicateComponent", id, FALSE, NoId, <<>>)
            /\ UNCHANGED <<dom, editor, contentInput, components, changeListeners, queue, extEdits>>
       ELSE LET comp == components[id]
                el   == comp.element
                par  == Parent(dom, el)
            IN /\ Cardinality(FreeNodes(dom)) >= 1 + Len(DescOf(dom, el))
               /\ LET r  == CloneNode(dom, el)
                      d1 == [r.d EXCEPT !.mk[r.root] = newId]
                      at == CHOOSE j \in 1..Len(dom.ch[par]) : dom.ch[par][j] = el
                      d2 == IF par = NoNode THEN d1 ELSE Attach(d1, r.root, par, at)
                  IN /\ Effects(d2, MapSet(components, newId,
                                                ComponentData(newId, comp.type, comp.props, r.root)),
                                IF par = NoNode THEN queue ELSE Record(d1, queue, par, Added(r.root)))
                     /\ contentInput' = SyncContent(d2)
                     /\ last' = Step("duplicateComponent", id, TRUE, newId, <<>>)
               /\ UNCHANGED <<editor, changeListeners, extEdits>>
    /\ UNCHANGED server

\* onChange(listener)
OnChange(l) ==
    /\ last = Env
    /\ l \notin Range(changeListeners)
    /\ changeListeners' = Append(changeListeners, l)
    /\ last' = Env
    /\ UNCHANGED <<dom, editor, contentInput, components, queue, extEdits>>
    /\ UNCHANGED server

\* a variant of the function onChange returned that empties the set of listeners
UnsubscribeAll(l) ==
    /\ last = Env
    /\ l \in Range(changeListeners)
    /\ changeListeners' = <<>>
    /\ last' = WithArgs(Step("unsubscribe", NoId, TRUE, NoId, <<>>), <<l>>)
    /\ UNCHANGED <<dom, editor, contentInput, components, queue, extEdits>>
    /\ UNCHANGED server

\* the function onChange returned for l: () => this.changeListeners.delete(listener)
Unsubscribe(l) ==
    /\ last = Env
    /\ l \in Range(changeListeners)
    /\ changeListeners' = RemoveFrom(changeListeners, l)
    /\ last' = WithArgs(Step("unsubscribe", NoId, TRUE, NoId, <<>>), <<l>>)
    /\ UNCHANGED <<dom, editor, contentInput, components, queue, extEdits>>
    /\ UNCHANGED server

\* argument values of the calls
ComponentUpdates == {[src |-> "b.png"]}
ImageUpdates == {[src |-> "b.png"]}
InsertOptions == {NoProps}

\* the caller has the result of the call; the manager is idle again
Return ==
    /\ last # Env
    /\ last' = Env
    /\ UNCHANGED <<dom, editor, contentInput, components, changeListeners, queue, extEdits>>
    /\ UNCHANGED server

\* one step at a time: the event loop runs each call and each callback to its end
Next ==
    \/ InitManager
    \/ \E k \in ExtKinds, m \in PastedIds \cup {NoId}, p \in Places : ExtInsert(k, m, p)
    \/ \E k \in ExtKinds, p \in Places : ExtInsertNested(k, p)
    \/ \E n \in Nodes : ExtRemove(n)
    \/ \E n \in Nodes : ExtMove(n)
    \/ Flush
    \/ \E id \in Ids, u \in ComponentUpdates : UpdateComponent(id, u)
    \/ \E id \in Ids, u \in ImageUpdates : UpdateImage(id, u)
    \/ \E id \in Ids : RemoveComponent(id)
    \/ \E o \in InsertOptions, sel \in Selections(dom), id \in GenerateId :
          InsertImage("b.png", "dog", o, sel, id)
    \/ \E id \in Ids, newId \in GenerateId : DuplicateComponent(id, newId)
    \/ \E l \in Listeners : OnChange(l)
    \/ \E l \in Listeners : Unsubscribe(l)
    \/ Return

Spec == Init /\ [][Next]_vars

(***************************************************************************)
(* The image operations on their own: a manager over a small document     *)
(* without edits from outside, the calls with every layout and with empty  *)
(* values, and the observer callback for the records these calls queue.    *)
(***************************************************************************)
Layouts == {"inline", "float-left", "float-right", "center", "figure"}

SrcArgs == {[src |-> "c.png", alt |-> "bird", width |-> "50%"]}

ImageArgs == {[layout |-> l] : l \in Layouts} \cup SrcArgs

ComponentArgs == {[src |-> "b.png"], [src |-> ""]}

InsertArgs == {NoProps, [layout |-> "center"]}

ImageDoms ==
    { EmptyDom,
      WithNode(EmptyDom, "img", NoId, EditorEl),
      WithNode(WithNode(EmptyDom, "figure", NoId, EditorEl), "img", NoId, 1),
      WithNode(WithNode(EmptyDom, "wrapper", NoId, EditorEl), "img", NoId, 1) }

InitImage ==
    /\ dom \in ImageDoms
    /\ editor = NoNode
    /\ contentInput = <<>>
    /\ components = [k \in {} |-> 0]
    /\ changeListeners = <<>>
    /\ queue = <<>>
    /\ extEdits = 0
    /\ last = Env
    /\ ServerIdle

\* updateImage with every layout
NextLayout ==
    \/ InitManager
    \/ \E id \in Ids, u \in ImageArgs : UpdateImage(id, u)
    \/ Return

SpecLayout == InitImage /\ [][NextLayout]_vars

\* insertImage, and updateImage of what it inserted
NextInsert ==
    \/ InitManager
    \/ Flush
    \/ \E o \in InsertArgs, sel \in Selections(dom), id \in GenerateId :
          InsertImage("b.png", "dog", o, sel, id)
    \/ \E id \in Ids, u \in SrcArgs : UpdateImage(id, u)
    \/ Return

SpecInsert == InitImage /\ [][NextInsert]_vars

\* duplicateComponent and the updates of the source and of the clone
NextDup ==
    \/ InitManager
    \/ Flush
    \/ \E id \in Ids, u \in ComponentArgs : UpdateComponent(id, u)
    \/ \E id \in Ids, u \in ImageUpdates : UpdateImage(id, u)
    \/ \E id \in Ids, newId \in GenerateId : DuplicateComponent(id, newId)
    \/ Return

SpecDup == InitImage /\ [][NextDup]_vars

(***************************************************************************)
(* updateComponent and updateImage statement by statement.  A call patches *)
(* the DOM and the record, then runs the statements of AfterPatch in their *)
(* order, then returns.  While last.op is one of RunningOps the call is on *)
(* the stack: the callback of the observer, the next call and the next     *)
(* edit wait until it has returned.                                        *)
(***************************************************************************)
\* a variant of the method body that notifies the listeners before it syncs
AfterPatchNotifyFirst == <<"notify", "sync">>

\* the statements after the patch: this.syncContent(); this.notifyListeners(id, component)
AfterPatch == <<"sync", "notify">>

\* last.op of a call that has run k statements of AfterPatch, at index k + 1
Running ==
    [updateComponent |-> <<"updateComponent/patched", "updateComponent/next">>,
     updateImage     |-> <<"updateImage/patched", "updateImage/next">>]

RunningOps == Range(Running["updateComponent"]) \cup Range(Running["updateImage"])

BeginUpdateComponent(id, updates) ==
    /\ last = Env
    /\ IF id \notin DOMAIN components \/ components[id].element = NoNode
       THEN /\ last' = Step("updateComponent", id, FALSE, NoId, <<>>)
            /\ UNCHANGED <<dom, editor, contentInput, components, changeListeners, queue, extEdits>>
       ELSE LET comp == [components[id] EXCEPT !.props = Merge(@, updates)]
                d1   == ApplyUpdatesToDOM(dom, comp)
            IN /\ Effects(d1, MapSet(components, id, comp), queue)
               /\ last' = WithArgs(Step(Running["updateComponent"][1], id, TRUE, NoId, <<>>),
                                   updates)
               /\ UNCHANGED <<editor, contentInput, changeListeners, extEdits>>
    /\ UNCHANGED server

BeginUpdateImage(id, props) ==
    /\ last = Env
    /\ IF id \notin DOMAIN components \/ ImageOf(dom, components[id]) = NoNode
       THEN /\ last' = Step("updateImage", id, FALSE, NoId, <<>>)
            /\ UNCHANGED <<dom, editor, contentInput, components, changeListeners, queue, extEdits>>
       ELSE LET img  == ImageOf(dom, components[id])
                a0   == dom.at[img]
                a1   == IF "src" \in DOMAIN props THEN [a0 EXCEPT !.src = props["src"]] ELSE a0
                a2   == IF "alt" \in DOMAIN props THEN [a1 EXCEPT !.alt = props["alt"]] ELSE a1
                a3   == IF "width" \in DOMAIN props THEN [a2 EXCEPT !.width = props["width"]] ELSE a2
                a4   == IF "layout" \in DOMAIN props THEN ApplyLayout(a3, props["layout"]) ELSE a3
                d1   == [dom EXCEPT !.at[img] = a4]
                comp == [components[id] EXCEPT !.props = Merge(@, props)]
            IN /\ Effects(d1, MapSet(components, id, comp), queue)
               /\ last' = WithArgs(Step(Running["updateImage"][1], id, TRUE, NoId, <<>>), props)
               /\ UNCHANGED <<editor, contentInput, changeListeners, extEdits>>
    /\ UNCHANGED server

\* the next statement of the call on the stack; after the last one the call returns true
ContinueUpdate ==
    /\ last.op \in RunningOps
    /\ LET op    == CHOOSE o \in DOMAIN Running : last.op \in Range(Running[o])
           k     == CHOOSE i \in 1..Len(AfterPatch) : Running[op][i] = last.op
           stmt  == AfterPatch[k]
           calls == IF stmt = "notify" THEN NotifyListeners(last.id, components[last.id])
                    ELSE <<>>
       IN /\ contentInput' = IF stmt = "sync" THEN SyncContent(dom) ELSE contentInput
          /\ last' = [last EXCEPT !.op = IF k = Len(AfterPatch) THEN op ELSE Running[op][k + 1],
                                  !.calls = @ \o calls]
    /\ UNCHANGED <<dom, editor, components, changeListeners, queue, extEdits>>
    /\ UNCHANGED server

ReturnFromCall == last.op \notin RunningOps /\ Return

NextSteps ==
    \/ InitManager
    \/ \E k \in ExtKinds, p \in Places : ExtInsert(k, NoId, p)
    \/ \E n \in Nodes : ExtRemove(n)
    \/ Flush
    \/ \E l \in Listeners : OnChange(l)
    \/ \E id \in Ids, u \in ComponentUpdates : BeginUpdateComponent(id, u)
    \/ \E id \in Ids, u \in ImageUpdates : BeginUpdateImage(id, u)
    \/ ContinueUpdate
    \/ ReturnFromCall

SpecSteps == InitImage /\ [][NextSteps]_vars

(***************************************************************************)
(* The listeners of the change bus.  A listener is a function of the host  *)
(* page: a call of it returns or throws.  notifyListeners has no try, so   *)
(* the forEach ends at the first listener that throws and the exception    *)
(* leaves updateComponent or updateImage before its `return true`.         *)
(***************************************************************************)
Subscribers == 1..MaxSubscribers

\* last.op of a call that ended with the exception of a listener
Thrown == [updateComponent |-> "updateComponent/thrown", updateImage |-> "updateImage/thrown"]

ThrownOps == {Thrown[o] : o \in DOMAIN Thrown}

\* a variant of the pass that calls every listener and rethrows the exception afterwards
ListenerThrowsAtEnd(t) ==
    /\ last.op \in RunningOps
    /\ t \in 1..Len(changeListeners)
    /\ LET op == CHOOSE o \in DOMAIN Running : last.op \in Range(Running[o])
           k  == CHOOSE i \in 1..Len(AfterPatch) : Running[op][i] = last.op
       IN /\ AfterPatch[k] = "notify"
          /\ last' = [last EXCEPT !.op = Thrown[op], !.ok = FALSE, !.ret = changeListeners[t],
                                  !.calls = @ \o NotifyListeners(last.id, components[last.id])]
    /\ UNCHANGED <<dom, editor, contentInput, components, changeListeners, queue, extEdits>>
    /\ UNCHANGED server

\* the notification pass in which the t-th listener throws: the listeners up to
\* it were called, the caller gets its exception (last.ret names the listener)
ListenerThrows(t) ==
    /\ last.op \in RunningOps
    /\ t \in 1..Len(changeListeners)
    /\ LET op == CHOOSE o \in DOMAIN Running : last.op \in Range(Running[o])
           k  == CHOOSE i \in 1..Len(AfterPatch) : Running[op][i] = last.op
       IN /\ AfterPatch[k] = "notify"
          /\ last' = [last EXCEPT !.op = Thrown[op], !.ok = FALSE, !.ret = changeListeners[t],
                                  !.calls = @ \o SubSeq(NotifyListeners(last.id, components[last.id]), 1, t)]
    /\ UNCHANGED <<dom, editor, contentInput, components, changeListeners, queue, extEdits>>
    /\ UNCHANGED server

NextBus ==
    \/ InitManager
    \/ \E l \in Subscribers : OnChange(l)
    \/ \E l \in Subscribers : Unsubscribe(l)
    \/ \E id \in Ids, u \in ComponentUpdates : BeginUpdateComponent(id, u)
    \/ \E id \in Ids, u \in ImageUpdates : BeginUpdateImage(id, u)
    \/ ContinueUpdate
    \/ \E t \in 1..MaxSubscribers : ListenerThrows(t)
    \/ ReturnFromCall

SpecBus == InitImage /\ [][NextBus]_vars

(***************************************************************************)
(* MediaService of the media test suite (benchmark-full.cjs).  Its calls   *)
(* are awaited one at a time by the tests: last holds the call that just   *)
(* settled, ok = FALSE standing for a rejected promise (a thrown Error).   *)
(***************************************************************************)
\* private maxFileSize = 10 * 1024 * 1024
MaxFileSize == 10485760

\* private allowedTypes
AllowedTypes == {"image/jpeg", "image/png", "image/gif", "image/webp", "image/svg+xml"}

\* generateId(): `${Date.now()}-${Math.random()...}`, whatever the ids in use
MediaIds == 1..MaxFiles

\* what get returns for a key the map does not hold
Undefined == [id |-> NoId]

\* sanitizeFilename(name) on the names of the uploads
SanitizeFilename(name) ==
    CASE name = "MyFile.JPG" -> "myfile.jpg"
      [] name = "my file (1).jpg" -> "my-file-1.jpg"
      [] OTHER -> name

\* validateFile(file)
ValidateFile(file) ==
    IF file.type \notin AllowedTypes
    THEN [valid |-> FALSE, error |-> "Invalid file type"]
    ELSE IF file.size > MaxFileSize
         THEN [valid |-> FALSE, error |-> "File too large"]
         ELSE [valid |-> TRUE, error |-> ""]

\* getById(id)
GetById(fs, id) == IF id \in DOMAIN fs THEN fs[id] ELSE Undefined

\* upload(options, userId), id being what generateId returns
Upload(file, alt, userId, id) ==
    /\ last = Env
    /\ LET validation == ValidateFile(file)
       IN IF ~validation.valid
          THEN /\ last' = WithArgs(Step("upload", NoId, FALSE, NoId, <<>>),
                                   [file |-> file, error |-> validation.error])
               /\ UNCHANGED files
          ELSE LET media == [id           |-> id,
                             filename     |-> SanitizeFilename(file.name),
                             originalName |-> file.name,
                             mimeType     |-> file.type,
                             size         |-> file.size,
                             alt          |-> alt,
                             uploadedBy   |-> userId]
               IN /\ files' = MapSet(files, id, media)
                  /\ last' = WithArgs(Step("upload", id, TRUE, id, <<>>),
                                      [file |-> file, error |-> ""])
    /\ UNCHANGED <<dom, editor, contentInput, components, changeListeners, queue, extEdits>>
    /\ UNCHANGED <<db, requests>>

\* delete(id): this.files.delete(id)
DeleteFile(id) ==
    /\ last = Env
    /\ files' = MapDelete(files, id)
    /\ last' = Step("delete", id, id \in DOMAIN files, NoId, <<>>)
    /\ UNCHANGED <<dom, editor, contentInput, components, changeListeners, queue, extEdits>>
    /\ UNCHANGED <<db, requests>>

\* clear()
ClearFiles ==
    /\ last = Env
    /\ files' = NoFiles
    /\ last' = Step("clear", NoId, TRUE, NoId, <<>>)
    /\ UNCHANGED <<dom, editor, contentInput, components, changeListeners, queue, extEdits>>
    /\ UNCHANGED <<db, requests>>

\* the test suite got the result of the call
ReturnToTest ==
    /\ last # Env
    /\ last' = Env
    /\ UNCHANGED <<dom, editor, contentInput, components, changeListeners, queue, extEdits>>
    /\ UNCHANGED server

\* the files the tests upload
UploadFiles ==
    [name : {"test.jpg", "MyFile.JPG"},
     type : {"image/jpeg", "image/svg+xml", "application/pdf"},
     size : {1024, MaxFileSize, MaxFileSize + 1}]

\* beforeEach: a new MediaService
InitMedia ==
    /\ dom = EmptyDom
    /\ editor = NoNode
    /\ contentInput = <<>>
    /\ components = [k \in {} |-> 0]
    /\ changeListeners = <<>>
    /\ queue = <<>>
    /\ extEdits = 0
    /\ last = Env
    /\ ServerIdle

NextMedia ==
    \/ \E f \in UploadFiles, alt \in {"", "Test image"}, id \in MediaIds : Upload(f, alt, 1, id)
    \/ \E id \in MediaIds : DeleteFile(id)
    \/ ClearFiles
    \/ ReturnToTest

SpecMedia == InitMedia /\ [][NextMedia]_vars

(***************************************************************************)
(* The admin endpoints over the database.  A handler is a chain of awaited *)
(* D1 statements; each statement is atomic and nothing joins them into a   *)
(* transaction, so a request advances one statement at a time (with the    *)
(* computation that follows it) and other requests may run in between.     *)
(* pc names the statement a request is about to run.                       *)
(***************************************************************************)
\* NULL in a parent_id column; also what `x || null` makes of a missing value
NoCategory == 0

\* no admin_session cookie
NoToken == 0

CategoryIds == 1..MaxCategories

Request(op, pc, args) ==
    [op |-> op, pc |-> pc, args |-> args, locals |-> <<>>, response |-> "none"]

\* return new Response(..., { status })
Respond(req, status) == [req EXCEPT !.pc = "done", !.response = status]

\* the request on connection r is about to run statement pc of handler op
At(r, op, pc) == requests[r].op = op /\ requests[r].pc = pc

\* cookie, DB binding and the session query every admin endpoint starts with:
\* SELECT user_id FROM admin_sessions WHERE token = ? AND expires_at > datetime("now")
Authenticate(d, token) ==
    IF token = NoToken THEN "401"
    ELSE IF token \in DOMAIN d.admin_sessions /\ d.admin_sessions[token] = "live"
         THEN "ok"
         ELSE "401"

Max(S) == CHOOSE x \in S : \A y \in S : y <= x

\* rows of blog_categories WHERE parent_id IS parent
ChildrenOf(d, parent) ==
    {c \in DOMAIN d.blog_categories : d.blog_categories[c].parent_id = parent}

\* the client has the response; the connection is free again
Close(r) ==
    /\ requests[r].pc = "done"
    /\ requests' = [requests EXCEPT ![r] = Idle]
    /\ UNCHANGED <<files, db>>
    /\ UNCHANGED client

(***************************************************************************)
(* POST category create                                                    *)
(***************************************************************************)
CreateBegin(r, token, slug, parent_id) ==
    /\ requests[r] = Idle
    /\ db.last_category_id + Cardinality({q \in RequestIds : requests[q].op = "create"})
          < MaxCategories
    /\ LET req == Request("create", "exists",
                          [token |-> token, slug |-> slug, parent_id |-> parent_id])
       IN requests' = [requests EXCEPT ![r] =
                          IF Authenticate(db, token) # "ok" THEN Respond(req, "401")
                          ELSE IF slug = "" THEN Respond(req, "400")
                          ELSE req]
    /\ UNCHANGED <<files, db>>
    /\ UNCHANGED client

\* SELECT id FROM blog_categories WHERE slug = ?
CreateExists(r) ==
    /\ At(r, "create", "exists")
    /\ LET req      == requests[r]
           existing == \E c \in DOMAIN db.blog_categories :
                          db.blog_categories[c].slug = req.args.slug
       IN requests' = [requests EXCEPT ![r] =
                          IF existing THEN Respond(req, "400") ELSE [req EXCEPT !.pc = "maxsort"]]
    /\ UNCHANGED <<files, db>>
    /\ UNCHANGED client

\* SELECT COALESCE(MAX(sort_order), 0) + 1 ... WHERE parent_id IS ?
CreateMaxSort(r) ==
    /\ At(r, "create", "maxsort")
    /\ LET req        == requests[r]
           orders     == {db.blog_categories[c].sort_order :
                             c \in ChildrenOf(db, req.args.parent_id)}
           next_order == Max(orders \cup {0}) + 1
           sortOrder  == IF next_order = 0 THEN 1 ELSE next_order
       IN requests' = [requests EXCEPT ![r] =
                          [req EXCEPT !.pc = "insert", !.locals = [sortOrder |-> sortOrder]]]
    /\ UNCHANGED <<files, db>>
    /\ UNCHANGED client

\* INSERT INTO blog_categories (name, slug, description, parent_id, sort_order)
CreateInsert(r) ==
    /\ At(r, "create", "insert")
    /\ LET req == requests[r]
           id  == db.last_category_id + 1
           row == [parent_id  |-> req.args.parent_id,
                   sort_order |-> req.locals.sortOrder,
                   slug       |-> req.args.slug]
       IN /\ db' = [db EXCEPT !.blog_categories = MapSet(@, id, row), !.last_category_id = id]
          /\ requests' = [requests EXCEPT ![r] =
                             Respond([req EXCEPT !.locals = [id |-> id]], "200")]
    /\ UNCHANGED files
    /\ UNCHANGED client

(***************************************************************************)
(* POST category update                                                    *)
(***************************************************************************)
UpdateBegin(r, token, id, slug, parent_id) ==
    /\ requests[r] = Idle
    /\ LET req == Request("update", "exists",
                          [token |-> token, id |-> id, slug |-> slug, parent_id |-> parent_id])
       IN requests' = [requests EXCEPT ![r] =
                          IF Authenticate(db, token) # "ok" THEN Respond(req, "401")
                          ELSE IF id = NoCategory \/ slug = "" THEN Respond(req, "400")
                          ELSE IF parent_id # NoCategory /\ parent_id = id THEN Respond(req, "400")
                          ELSE req]
    /\ UNCHANGED <<files, db>>
    /\ UNCHANGED client

\* SELECT id FROM blog_categories WHERE slug = ? AND id != ?
UpdateExists(r) ==
    /\ At(r, "update", "exists")
    /\ LET req      == requests[r]
           existing == \E c \in DOMAIN db.blog_categories \ {req.args.id} :
                          db.blog_categories[c].slug = req.args.slug
       IN requests' = [requests EXCEPT ![r] =
                          IF existing THEN Respond(req, "400") ELSE [req EXCEPT !.pc = "write"]]
    /\ UNCHANGED <<files, db>>
    /\ UNCHANGED client

\* UPDATE blog_categories SET name = ?, slug = ?, description = ?, parent_id = ? WHERE id = ?
UpdateWrite(r) ==
    /\ At(r, "update", "write")
    /\ LET req == requests[r]
           id  == req.args.id
       IN /\ db' = IF id \in DOMAIN db.blog_categories
                   THEN [db EXCEPT !.blog_categories[id].slug = req.args.slug,
                                   !.blog_categories[id].parent_id = req.args.parent_id]
                   ELSE db
          /\ requests' = [requests EXCEPT ![r] = Respond(req, "200")]
    /\ UNCHANGED files
    /\ UNCHANGED client

(***************************************************************************)
(* POST category reorder                                                   *)
(***************************************************************************)
ReorderBegin(r, token, categoryId, newParentId, newIndex) ==
    /\ requests[r] = Idle
    /\ LET req == Request("reorder", IF newParentId # NoCategory THEN "walk" ELSE "siblings",
                          [token |-> token, categoryId |-> categoryId,
                           newParentId |-> newParentId, newIndex |-> newIndex])
       IN requests' = [requests EXCEPT ![r] =
                          IF Authenticate(db, token) # "ok" THEN Respond(req, "401")
                          ELSE IF categoryId = NoCategory THEN Respond(req, "400")
                          ELSE IF newParentId # NoCategory /\ newParentId = categoryId
                               THEN Respond(req, "400")
                          ELSE [req EXCEPT !.locals = [currentParentId |-> newParentId]]]
    /\ UNCHANGED <<files, db>>
    /\ UNCHANGED client

\* one turn of `while (currentParentId)`:
\* SELECT id, parent_id FROM blog_categories WHERE id = ?
ReorderWalk(r) ==
    /\ At(r, "reorder", "walk")
    /\ LET req == requests[r]
           cur == req.locals.currentParentId
       IN requests' = [requests EXCEPT ![r] =
                          IF cur \notin DOMAIN db.blog_categories
                          THEN [req EXCEPT !.pc = "siblings"]
                          ELSE IF cur = req.args.categoryId THEN Respond(req, "400")
                          ELSE IF db.blog_categories[cur].parent_id = NoCategory
                               THEN [req EXCEPT !.pc = "siblings",
                                                !.locals = [currentParentId |-> NoCategory]]
                               ELSE [req EXCEPT !.locals = [currentParentId |->
                                                   db.blog_categories[cur].parent_id]]]
    /\ UNCHANGED <<files, db>>
    /\ UNCHANGED client

\* the results ORDER BY sort_order ASC can give for the rows S: rows with equal
\* sort_order come in an order the query does not fix
OrderedBySortOrder(d, S) ==
    {s \in [1..Cardinality(S) -> S] :
        /\ \A i, j \in DOMAIN s : i # j => s[i] # s[j]
        /\ \A i, j \in DOMAIN s :
              i < j => d.blog_categories[s[i]].sort_order <= d.blog_categories[s[j]].sort_order}

\* the loop and the `newIndex >= siblingList.length` block that fill `updates`
ReorderUpdates(categoryId, siblingList, newIndex) ==
    LET n      == Len(siblingList)
        looped == IF newIndex \in 0..n
                  THEN SubSeq(siblingList, 1, newIndex) \o <<categoryId>>
                          \o SubSeq(siblingList, newIndex + 1, n)
                  ELSE siblingList
        ids    == IF newIndex >= n /\ categoryId \notin Range(looped)
                  THEN Append(looped, categoryId)
                  ELSE looped
    IN [i \in 1..Len(ids) |-> [id |-> ids[i], sort_order |-> i - 1]]

\* SELECT id, sort_order FROM blog_categories WHERE parent_id IS ? AND id != ?
\* ORDER BY sort_order ASC, and the computation of the new sort orders
ReorderSiblings(r) ==
    /\ At(r, "reorder", "siblings")
    /\ LET req  == requests[r]
           rows == ChildrenOf(db, req.args.newParentId) \ {req.args.categoryId}
       IN \E siblingList \in OrderedBySortOrder(db, rows) :
             requests' = [requests EXCEPT ![r] =
                 [req EXCEPT !.pc = "setparent",
                             !.locals = [siblingList |-> siblingList,
                                         updates     |-> ReorderUpdates(req.args.categoryId,
                                                            siblingList, req.args.newIndex)]]]
    /\ UNCHANGED <<files, db>>
    /\ UNCHANGED client

\* UPDATE blog_categories SET parent_id = ? WHERE id = ?
ReorderSetParent(r) ==
    /\ At(r, "reorder", "setparent")
    /\ LET req == requests[r]
           id  == req.args.categoryId
       IN /\ db' = IF id \in DOMAIN db.blog_categories
                   THEN [db EXCEPT !.blog_categories[id].parent_id = req.args.newParentId]
                   ELSE db
          /\ requests' = [requests EXCEPT ![r] =
                             IF req.locals.updates = <<>> THEN Respond(req, "200")
                             ELSE [req EXCEPT !.pc = "renumber"]]
    /\ UNCHANGED files
    /\ UNCHANGED client

\* one turn of `for (const update of updates)`:
\* UPDATE blog_categories SET sort_order = ? WHERE id = ?
ReorderRenumber(r) ==
    /\ At(r, "reorder", "renumber")
    /\ LET req    == requests[r]
           update == Head(req.locals.updates)
           rest   == Tail(req.locals.updates)
       IN /\ db' = IF update.id \in DOMAIN db.blog_categories
                   THEN [db EXCEPT !.blog_categories[update.id].sort_order = update.sort_order]
                   ELSE db
          /\ requests' = [requests EXCEPT ![r] =
                             IF rest = <<>> THEN Respond([req EXCEPT !.locals.updates = rest], "200")
                             ELSE [req EXCEPT !.locals.updates = rest]]
    /\ UNCHANGED files
    /\ UNCHANGED client

(***************************************************************************)
(* POST category delete                                                    *)
(***************************************************************************)
DeleteBegin(r, token, id) ==
    /\ requests[r] = Idle
    /\ LET req == Request("delete", "orphan", [token |-> token, id |-> id])
       IN requests' = [requests EXCEPT ![r] =
                          IF Authenticate(db, token) # "ok" THEN Respond(req, "401")
                          ELSE IF id = NoCategory THEN Respond(req, "400")
                          ELSE req]
    /\ UNCHANGED <<files, db>>
    /\ UNCHANGED client

\* UPDATE blog_categories SET parent_id = NULL WHERE parent_id = ?
DeleteOrphan(r) ==
    /\ At(r, "delete", "orphan")
    /\ LET req == requests[r]
       IN /\ db' = [db EXCEPT !.blog_categories =
                       [c \in DOMAIN @ |->
                           IF @[c].parent_id = req.args.id
                           THEN [@[c] EXCEPT !.parent_id = NoCategory]
                           ELSE @[c]]]
          /\ requests' = [requests EXCEPT ![r] = [req EXCEPT !.pc = "unlink"]]
    /\ UNCHANGED files
    /\ UNCHANGED client

\* DELETE FROM blog_post_categories WHERE category_id = ?
DeleteUnlink(r) ==
    /\ At(r, "delete", "unlink")
    /\ LET req == requests[r]
       IN /\ db' = [db EXCEPT !.blog_post_categories = {pc \in @ : pc[2] # req.args.id}]
          /\ requests' = [requests EXCEPT ![r] = [req EXCEPT !.pc = "delete"]]
    /\ UNCHANGED files
    /\ UNCHANGED client

\* DELETE FROM blog_categories WHERE id = ?
DeleteRow(r) ==
    /\ At(r, "delete", "delete")
    /\ LET req == requests[r]
       IN /\ db' = [db EXCEPT !.blog_categories = MapDelete(@, req.args.id)]
          /\ requests' = [requests EXCEPT ![r] = Respond(req, "200")]
    /\ UNCHANGED files
    /\ UNCHANGED client

(***************************************************************************)
(* The category endpoints used by one admin, one request after the other.  *)
(***************************************************************************)
\* the token of the admin's session
Admin == 1

\* the slug the admin gives the category with this id
Slugs == <<"news", "tech", "life", "misc", "more">>

\* positions the tree view sends; -1 for a drop it could not place
Indexes == -1..(MaxCategories - 1)

InitCategories ==
    /\ dom = EmptyDom
    /\ editor = NoNode
    /\ contentInput = <<>>
    /\ components = [k \in {} |-> 0]
    /\ changeListeners = <<>>
    /\ queue = <<>>
    /\ extEdits = 0
    /\ last = Env
    /\ files = NoFiles
    /\ db = [EmptyDb EXCEPT !.admin_sessions = [t \in {Admin} |-> "live"]]
    /\ requests = NoRequests

\* the categories the admin pages list: the requests name rows of the table
Listed == DOMAIN db.blog_categories

NextCategories ==
    \/ \E p \in Listed \cup {NoCategory} :
          CreateBegin(1, Admin, Slugs[db.last_category_id + 1], p)
    \/ CreateExists(1)
    \/ CreateMaxSort(1)
    \/ CreateInsert(1)
    \/ \E id \in Listed, p \in Listed \cup {NoCategory} :
          UpdateBegin(1, Admin, id, Slugs[id], p)
    \/ UpdateExists(1)
    \/ UpdateWrite(1)
    \/ \E id \in Listed, p \in Listed \cup {NoCategory}, i \in Indexes :
          ReorderBegin(1, Admin, id, p, i)
    \/ ReorderWalk(1)
    \/ ReorderSiblings(1)
    \/ ReorderSetParent(1)
    \/ ReorderRenumber(1)
    \/ \E id \in Listed : DeleteBegin(1, Admin, id)
    \/ DeleteOrphan(1)
    \/ DeleteUnlink(1)
    \/ DeleteRow(1)
    \/ Close(1)

SpecCategories == InitCategories /\ [][NextCategories]_vars

\* a statement of the handler on connection r, or the body of its response
HandlerStep(r) ==
    \/ CreateExists(r) \/ CreateMaxSort(r) \/ CreateInsert(r)
    \/ UpdateExists(r) \/ UpdateWrite(r)
    \/ ReorderWalk(r) \/ ReorderSiblings(r) \/ ReorderSetParent(r) \/ ReorderRenumber(r)
    \/ DeleteOrphan(r) \/ DeleteUnlink(r) \/ DeleteRow(r)

\* the runtime resumes a handler whenever the statement it awaits has resolved
SpecCategoriesFair == SpecCategories /\ WF_vars(HandlerStep(1))

(***************************************************************************)
(* POST like toggle (public, no session).  userIdentifier is computed from *)
(* the request headers; the requests carry it as u.                        *)
(***************************************************************************)
Posts == {1}

\* a body without postId
NoPost == 0

UserIdentifiers == 1..MaxUsers

\* the number of rows of blog_likes WHERE post_id = p AND user_identifier = u
LikeRows(d, p, u) == IF <<p, u>> \in DOMAIN d.blog_likes THEN d.blog_likes[<<p, u>>] ELSE 0

\* the number of rows of blog_likes WHERE post_id = p
RECURSIVE LikeRowsOf(_, _, _)
LikeRowsOf(d, p, us) ==
    IF us = {} THEN 0
    ELSE LET u == CHOOSE x \in us : TRUE
         IN LikeRows(d, p, u) + LikeRowsOf(d, p, us \ {u})

\* engagement?.likes || 0
Likes(d, p) == IF p \in DOMAIN d.blog_post_engagement THEN d.blog_post_engagement[p] ELSE 0

\* SELECT id FROM blog_likes WHERE post_id = ? AND user_identifier = ?
LikeBegin(r, postId, u) ==
    /\ requests[r] = Idle
    /\ Likes(db, postId) \in (0 - MaxLikes)..MaxLikes
    /\ LET existingLike == LikeRows(db, postId, u) > 0
           req == Request("like", IF existingLike THEN "delete" ELSE "insert",
                          [postId |-> postId, userIdentifier |-> u])
       IN requests' = [requests EXCEPT ![r] =
                          IF postId = NoPost THEN Respond(req, "400") ELSE req]
    /\ UNCHANGED <<files, db>>
    /\ UNCHANGED client

\* DELETE FROM blog_likes WHERE post_id = ? AND user_identifier = ?
LikeDelete(r) ==
    /\ At(r, "like", "delete")
    /\ LET a == requests[r].args
       IN db' = [db EXCEPT !.blog_likes = MapDelete(@, <<a.postId, a.userIdentifier>>)]
    /\ requests' = [requests EXCEPT ![r].pc = "decrement"]
    /\ UNCHANGED files
    /\ UNCHANGED client

\* UPDATE blog_post_engagement SET likes = likes - 1 WHERE post_id = ?
LikeDecrement(r) ==
    /\ At(r, "like", "decrement")
    /\ LET p == requests[r].args.postId
       IN db' = IF p \in DOMAIN db.blog_post_engagement
                THEN [db EXCEPT !.blog_post_engagement[p] = @ - 1]
                ELSE db
    /\ requests' = [requests EXCEPT ![r].pc = "count", ![r].locals = [liked |-> FALSE]]
    /\ UNCHANGED files
    /\ UNCHANGED client

\* INSERT INTO blog_likes (post_id, user_identifier) VALUES (?, ?)
LikeInsert(r) ==
    /\ At(r, "like", "insert")
    /\ LET a == requests[r].args
       IN db' = [db EXCEPT !.blog_likes =
                    MapSet(@, <<a.postId, a.userIdentifier>>,
                           LikeRows(db, a.postId, a.userIdentifier) + 1)]
    /\ requests' = [requests EXCEPT ![r].pc = "upsert"]
    /\ UNCHANGED files
    /\ UNCHANGED client

\* INSERT INTO blog_post_engagement ... VALUES (?, 1, 0)
\* ON CONFLICT(post_id) DO UPDATE SET likes = likes + 1
LikeUpsert(r) ==
    /\ At(r, "like", "upsert")
    /\ LET p == requests[r].args.postId
       IN db' = [db EXCEPT !.blog_post_engagement =
                    MapSet(@, p, IF p \in DOMAIN @ THEN @[p] + 1 ELSE 1)]
    /\ requests' = [requests EXCEPT ![r].pc = "count", ![r].locals = [liked |-> TRUE]]
    /\ UNCHANGED files
    /\ UNCHANGED client

\* SELECT likes FROM blog_post_engagement WHERE post_id = ?, and the response
LikeCount(r) ==
    /\ At(r, "like", "count")
    /\ LET req   == requests[r]
           likes == IF Likes(db, req.args.postId) = 0
                    THEN (IF req.locals.liked THEN 1 ELSE 0)
                    ELSE Likes(db, req.args.postId)
       IN requests' = [requests EXCEPT ![r] =
                          Respond([req EXCEPT !.locals = [liked |-> req.locals.liked,
                                                          likes |-> likes]], "200")]
    /\ UNCHANGED <<files, db>>
    /\ UNCHANGED client

InitLikes ==
    /\ dom = EmptyDom
    /\ editor = NoNode
    /\ contentInput = <<>>
    /\ components = [k \in {} |-> 0]
    /\ changeListeners = <<>>
    /\ queue = <<>>
    /\ extEdits = 0
    /\ last = Env
    /\ ServerIdle

NextLikes ==
    \/ \E r \in RequestIds, p \in Posts \cup {NoPost}, u \in UserIdentifiers : LikeBegin(r, p, u)
    \/ \E r \in RequestIds : LikeDelete(r)
    \/ \E r \in RequestIds : LikeDecrement(r)
    \/ \E r \in RequestIds : LikeInsert(r)
    \/ \E r \in RequestIds : LikeUpsert(r)
    \/ \E r \in RequestIds : LikeCount(r)
    \/ \E r \in RequestIds : Close(r)

SpecLikes == InitLikes /\ [][NextLikes]_vars

(***************************************************************************)
(* POST logout, and the session check of the admin endpoints.              *)
(***************************************************************************)
\* the tokens of the sessions that were opened
Tokens == {1, 2}

LogoutBegin(r, token) ==
    /\ requests[r] = Idle
    /\ LET req == Request("logout", "select", [token |-> token])
       IN requests' = [requests EXCEPT ![r] =
                          IF token = NoToken THEN Respond(req, "200") ELSE req]
    /\ UNCHANGED <<files, db>>
    /\ UNCHANGED client

\* SELECT user_id FROM admin_sessions WHERE token = ?
LogoutSelect(r) ==
    /\ At(r, "logout", "select")
    /\ LET req     == requests[r]
           session == req.args.token \in DOMAIN db.admin_sessions
       IN requests' = [requests EXCEPT ![r] =
                          IF session THEN [req EXCEPT !.pc = "delete"] ELSE Respond(req, "200")]
    /\ UNCHANGED <<files, db>>
    /\ UNCHANGED client

\* DELETE FROM admin_sessions WHERE token = ?
LogoutDelete(r) ==
    /\ At(r, "logout", "delete")
    /\ db' = [db EXCEPT !.admin_sessions = MapDelete(@, requests[r].args.token)]
    /\ requests' = [requests EXCEPT ![r].pc = "audit"]
    /\ UNCHANGED files
    /\ UNCHANGED client

\* logAuditEvent (its INSERT is wrapped in a try of its own), the cookies, the response
LogoutAudit(r) ==
    /\ At(r, "logout", "audit")
    /\ requests' = [requests EXCEPT ![r] = Respond(requests[r], "200")]
    /\ UNCHANGED <<files, db>>
    /\ UNCHANGED client

\* the statement a handler awaits rejects: the catch block of the handler answers,
\* 500 in the category endpoints, success in logout
DbError(r) ==
    /\ requests[r].pc \notin {"idle", "done"}
    /\ requests' = [requests EXCEPT ![r] =
                       Respond(requests[r], IF requests[r].op = "logout" THEN "200" ELSE "500")]
    /\ UNCHANGED <<files, db>>
    /\ UNCHANGED client

\* datetime("now") passes expires_at of the session
Expire(token) ==
    /\ token \in DOMAIN db.admin_sessions
    /\ db.admin_sessions[token] = "live"
    /\ db' = [db EXCEPT !.admin_sessions[token] = "expired"]
    /\ UNCHANGED <<files, requests>>
    /\ UNCHANGED client

InitSession ==
    /\ dom = EmptyDom
    /\ editor = NoNode
    /\ contentInput = <<>>
    /\ components = [k \in {} |-> 0]
    /\ changeListeners = <<>>
    /\ queue = <<>>
    /\ extEdits = 0
    /\ last = Env
    /\ files = NoFiles
    /\ db = [EmptyDb EXCEPT
               !.admin_sessions = [t \in Tokens |-> "live"],
               !.blog_categories = [c \in {1} |-> [parent_id |-> NoCategory, sort_order |-> 1,
                                                    slug |-> Slugs[1]]],
               !.last_category_id = 1]
    /\ requests = NoRequests

NextSession ==
    \/ \E r \in RequestIds, t \in Tokens \cup {NoToken} : LogoutBegin(r, t)
    \/ \E r \in RequestIds : LogoutSelect(r)
    \/ \E r \in RequestIds : LogoutDelete(r)
    \/ \E r \in RequestIds : LogoutAudit(r)
    \/ \E r \in RequestIds : DbError(r)
    \/ \E t \in Tokens : Expire(t)
    \/ \E r \in RequestIds, t \in Tokens \cup {NoToken} : DeleteBegin(r, t, 1)
    \/ \E r \in RequestIds : DeleteOrphan(r)
    \/ \E r \in RequestIds : DeleteUnlink(r)
    \/ \E r \in RequestIds : DeleteRow(r)
    \/ \E r \in RequestIds : Close(r)

SpecSession == InitSession /\ [][NextSession]_vars

(***************************************************************************)
(* Two admins (or two tabs of one) using the category endpoints at once.   *)
(***************************************************************************)
\* the slugs typed into the category form
FormSlugs == {"news", "tech"}

\* categories are created and renamed over both connections
NextSlugs ==
    \/ \E r \in RequestIds, s \in FormSlugs : CreateBegin(r, Admin, s, NoCategory)
    \/ \E r \in RequestIds : CreateExists(r)
    \/ \E r \in RequestIds : CreateMaxSort(r)
    \/ \E r \in RequestIds : CreateInsert(r)
    \/ \E r \in RequestIds, id \in Listed, s \in FormSlugs :
          UpdateBegin(r, Admin, id, s, db.blog_categories[id].parent_id)
    \/ \E r \in RequestIds : UpdateExists(r)
    \/ \E r \in RequestIds : UpdateWrite(r)
    \/ \E r \in RequestIds : Close(r)

SpecSlugs == InitCategories /\ [][NextSlugs]_vars

\* a table with a category, a child of it, and a post in the category
InitTree ==
    /\ dom = EmptyDom
    /\ editor = NoNode
    /\ contentInput = <<>>
    /\ components = [k \in {} |-> 0]
    /\ changeListeners = <<>>
    /\ queue = <<>>
    /\ extEdits = 0
    /\ last = Env
    /\ files = NoFiles
    /\ db = [EmptyDb EXCEPT
               !.admin_sessions = [t \in {Admin} |-> "live"],
               !.blog_categories =
                   [c \in {1, 2} |-> [parent_id  |-> IF c = 2 THEN 1 ELSE NoCategory,
                                      sort_order |-> 1,
                                      slug       |-> Slugs[c]]],
               !.last_category_id = 2,
               !.blog_post_categories = {<<1, 1>>}]
    /\ requests = NoRequests

\* categories are deleted over one connection while the other creates, edits or moves
NextTree ==
    \/ \E id \in Listed : DeleteBegin(1, Admin, id)
    \/ DeleteOrphan(1)
    \/ DeleteUnlink(1)
    \/ DeleteRow(1)
    \/ \E p \in Listed \cup {NoCategory} :
          CreateBegin(2, Admin, Slugs[db.last_category_id + 1], p)
    \/ CreateExists(2)
    \/ CreateMaxSort(2)
    \/ CreateInsert(2)
    \/ \E id \in Listed, p \in Listed \cup {NoCategory} :
          UpdateBegin(2, Admin, id, Slugs[id], p)
    \/ UpdateExists(2)
    \/ UpdateWrite(2)
    \/ \E id \in Listed, p \in Listed \cup {NoCategory} : ReorderBegin(2, Admin, id, p, 0)
    \/ ReorderWalk(2)
    \/ ReorderSiblings(2)
    \/ ReorderSetParent(2)
    \/ ReorderRenumber(2)
    \/ \E r \in RequestIds : Close(r)

SpecTree == InitTree /\ [][NextTree]_vars

(***************************************************************************)
(* Properties.  A state with last # Env is the state a call returned in;   *)
(* a step from last = Env to last'.op = o is a call of o.                  *)
(***************************************************************************)
MutatingOps ==
    {"updateComponent", "updateImage", "removeComponent", "insertImage", "duplicateComponent"}

\* C1: when the watcher has caught up, every element in the editor that carries
\* a marker has a record under that id, and every record whose element is
\* attached to the document belongs to an element carrying exactly that marker.
C1_MarkersMatchRegistry ==
    (editor = EditorEl /\ queue = <<>>) =>
        /\ \A n \in Nodes : (InEditor(dom, n) /\ dom.mk[n] # NoId) => dom.mk[n] \in DOMAIN components
        /\ \A id \in DOMAIN components :
              IsConnected(dom, components[id].element) => dom.mk[components[id].element] = id

\* C2: when updateComponent, updateImage, removeComponent, insertImage or
\* duplicateComponent has returned success, the content input holds exactly the
\* serialization of the editor's content.
C2_SyncAfterMutation ==
    (last.op \in MutatingOps /\ last.ok) => contentInput = InnerHTML(dom, EditorEl)

C2_Witness ==
    /\ last.op = "updateImage"
    /\ last.ok
    /\ contentInput # <<>>

\* C3: a call of updateComponent, updateImage or duplicateComponent with an id
\* whose record's element is no longer in the document fails (false, or no id
\* for duplicateComponent) and changes neither the registry, the DOM nor the
\* content input.
C3_DetachedTreatedAsUnknown ==
    [][\A id \in Ids :
          ( /\ id \in DOMAIN components
            /\ ~IsConnected(dom, components[id].element)
            /\ last = Env
            /\ last'.op \in {"updateComponent", "updateImage", "duplicateComponent"}
            /\ last'.id = id )
          => ( /\ ~last'.ok
               /\ last'.ret = NoId
               /\ UNCHANGED <<dom, components, contentInput>> )]_vars

\* C4: a call of updateComponent, updateImage, removeComponent or
\* duplicateComponent with an id the registry does not hold returns false (no
\* id for duplicateComponent) and leaves the content input as it was.
C4_UnknownIdRejected ==
    [][\A id \in Ids :
          ( /\ id \notin DOMAIN components
            /\ last = Env
            /\ last'.op \in {"updateComponent", "updateImage", "removeComponent",
                             "duplicateComponent"}
            /\ last'.id = id )
          => ( /\ ~last'.ok
               /\ last'.ret = NoId
               /\ contentInput' = contentInput )]_vars

C4_Witness ==
    /\ last.op = "duplicateComponent"
    /\ ~last.ok
    /\ last.id \notin DOMAIN components
    /\ editor = EditorEl
    /\ contentInput # InnerHTML(dom, EditorEl)

\* C5: an updateComponent or updateImage that returns false has changed neither
\* the records' stored properties, the DOM nor the content input, and has
\* called no listener.
C5_FailedUpdateAtomic ==
    [][( /\ last = Env
         /\ last'.op \in {"updateComponent", "updateImage"}
         /\ ~last'.ok )
       => ( /\ UNCHANGED <<dom, components, contentInput>>
            /\ last'.calls = <<>> )]_vars

C5_Witness ==
    /\ last.op = "updateImage"
    /\ ~last.ok
    /\ last.id \in DOMAIN components
    /\ changeListeners # <<>>
    /\ contentInput # InnerHTML(dom, EditorEl)

\* C6: an id that names a record is never assigned to another record: from one
\* state to the next, an id that stays registered stays with the same element.
C6_IdNeverReassigned ==
    [][\A id \in DOMAIN components :
          id \in DOMAIN components' => components'[id].element = components[id].element]_vars

\* C7: when init has returned, every component element of the markup the editor
\* was loaded with (each container type, each image outside a component) has a
\* record.
C7_InitRegistersAll ==
    [][(editor = NoNode /\ editor' = EditorEl) =>
          \A n \in Nodes :
             ( /\ InEditor(dom, n)
               /\ \/ IsComponentElement(dom, n)
                  \/ dom.kind[n] = "img" /\ \A a \in (AncestorsIncl(dom, n) \cap Nodes) \ {n} :
                                               ~IsComponentElement(dom, a) )
             => \E id \in DOMAIN components' : components'[id].element = n]_vars

\* C8: when the observer callback has run, every unmarked component element
\* (container type or image outside a component) that an edit since the
\* previous run put into the editor, directly or inside an inserted subtree,
\* carries a marker and has a record.
C8_InsertedGetsRegistered ==
    [][(queue # <<>> /\ queue' = <<>>) =>
          \A i \in 1..Len(queue) : queue[i].t = "add" =>
             \A n \in {queue[i].n} \cup Range(DescOf(dom, queue[i].n)) :
                ( /\ InEditor(dom, n)
                  /\ dom.mk[n] = NoId
                  /\ \/ IsComponentElement(dom, n)
                     \/ dom.kind[n] = "img" /\ ~HasMarkedAncestorOrSelf(dom, n) )
                => ( /\ dom'.mk[n] # NoId
                     /\ dom'.mk[n] \in DOMAIN components'
                     /\ components'[dom'.mk[n]].element = n )]_vars

\* C9: when the observer callback has run, no record is left for a tracked
\* element that an edit since the previous run took out of the editor,
\* directly or inside a removed subtree.
C9_RemovedGetsUnregistered ==
    [][(queue # <<>> /\ queue' = <<>>) =>
          \A i \in 1..Len(queue) : queue[i].t = "rem" =>
             \A n \in {queue[i].n} \cup Range(DescOf(dom, queue[i].n)) :
                ( /\ ~IsConnected(dom, n)
                  /\ dom.mk[n] \in DOMAIN components
                  /\ components[dom.mk[n]].element = n )
                => dom.mk[n] \notin DOMAIN components']_vars

\* C10: when a mutating operation has returned success, every registered
\* listener has been called exactly once with the id of the affected record.
C10_ListenersNotified ==
    (last.op \in MutatingOps /\ last.ok) =>
        /\ Len(last.calls) = Len(changeListeners)
        /\ \A i \in 1..Len(changeListeners) :
              /\ last.calls[i].listener = changeListeners[i]
              /\ last.calls[i].id = (IF last.ret # NoId THEN last.ret ELSE last.id)

\* the part of an element's attributes that a layout decides
LayoutState(a) ==
    [cls |-> a.cls \cap LayoutClasses, float |-> a.float, display |-> a.display,
     mTop |-> a.mTop, mRight |-> a.mRight, mBottom |-> a.mBottom, mLeft |-> a.mLeft]

\* C12: in the state updateImage(id, {layout: L}) returned success in, the same
\* call made again changes nothing: the layout patch applied to the image gives
\* the attributes it has, merging the argument gives the stored properties, and
\* the content input already holds what syncContent would write.
C12_LayoutIdempotent ==
    (last.op = "updateImage" /\ last.ok /\ "layout" \in DOMAIN last.args) =>
        LET comp == components[last.id]
            img  == ImageOf(dom, comp)
        IN /\ img # NoNode
           /\ ApplyLayout(dom.at[img], last.args["layout"]) = dom.at[img]
           /\ Merge(comp.props, last.args) = comp.props
           /\ SyncContent(dom) = contentInput

C12_Witness ==
    /\ last.op = "updateImage"
    /\ last.ok
    /\ last.args = [layout |-> "float-left"]
    /\ dom.at[ImageOf(dom, components[last.id])].display = "block"

\* C13: when updateImage(id, {layout: L}) has returned success, the layout
\* classes and the float, display and margin styles of the image are those that
\* L gives an image without any layout, whatever layout the image had before.
C13_LayoutResetThenApply ==
    (last.op = "updateImage" /\ last.ok /\ "layout" \in DOMAIN last.args) =>
        LayoutState(dom.at[ImageOf(dom, components[last.id])])
            = LayoutState(ApplyLayout(DefaultAttrs, last.args["layout"]))

\* C14: when updateImage(id, {src, alt, width}) has returned success, the image
\* element the component renders (the element itself when it is an <img>, the
\* <img> inside it otherwise) has that src, alt and width.
C14_UpdateImagePatchesImage ==
    (last.op = "updateImage" /\ last.ok /\ "src" \in DOMAIN last.args) =>
        LET el  == components[last.id].element
            img == IF dom.kind[el] = "img" THEN el ELSE QuerySelector(dom, el, {"img"})
        IN /\ img # NoNode
           /\ dom.at[img].src = last.args["src"]
           /\ dom.at[img].alt = last.args["alt"]
           /\ dom.at[img].width = last.args["width"]

\* C15: when updateComponent or updateImage has returned success, every
\* property the call gave that the record's type derives from its element has
\* the value in the record that extraction from the element gives.
C15_PropsNotStale ==
    (last.op \in {"updateComponent", "updateImage"} /\ last.ok) =>
        LET comp    == components[last.id]
            derived == ExtractProps(dom, comp.element, comp.type)
        IN \A k \in DOMAIN last.args \cap DOMAIN derived :
              (IF k \in {"src", "avatarSrc"} THEN ResolveUrl(comp.props[k]) ELSE comp.props[k])
                 = derived[k]

\* C16: a successful insertImage(src, alt, options) returns an id that named no
\* record before the call, and then names a record of type image with the
\* properties src, alt, width (default '100%') and layout (default 'inline').
C16_InsertImageRegisters ==
    [][(last = Env /\ last'.op = "insertImage" /\ last'.ok) =>
          /\ last'.ret \notin DOMAIN components
          /\ last'.ret \in DOMAIN components'
          /\ components'[last'.ret].type = "image"
          /\ components'[last'.ret].props =
                [src    |-> last'.args["src"],
                 alt    |-> last'.args["alt"],
                 width  |-> IF "width" \in DOMAIN last'.args THEN last'.args["width"] ELSE "100%",
                 layout |-> IF "layout" \in DOMAIN last'.args THEN last'.args["layout"]
                            ELSE "inline"]]_vars

\* C17: when insertImage has returned an id, the wrapper it inserted is inside
\* the editor, its next sibling is an empty paragraph, and the content input
\* holds the editor's content with both.
C17_InsertImagePlacement ==
    (last.op = "insertImage" /\ last.ok) =>
        LET w    == components[last.ret].element
            sibs == dom.ch[Parent(dom, w)]
        IN /\ InEditor(dom, w)
           /\ \E i \in 1..(Len(sibs) - 1) :
                 /\ sibs[i] = w
                 /\ dom.kind[sibs[i + 1]] = "p"
                 /\ dom.ch[sibs[i + 1]] = <<>>
           /\ contentInput = InnerHTML(dom, EditorEl)

\* C18: when insertImage(src, alt, {layout: 'center'}) has returned an id, the
\* inserted <img> has block display and auto margins left and right, as
\* updateImage(id, {layout: 'center'}) gives an image.
C18_InsertCentered ==
    (last.op = "insertImage" /\ last.ok /\ "layout" \in DOMAIN last.args
        /\ last.args["layout"] = "center") =>
        LET img == QuerySelector(dom, components[last.ret].element, {"img"})
        IN /\ img # NoNode
           /\ dom.at[img].display = ApplyLayout(DefaultAttrs, "center").display
           /\ dom.at[img].mLeft = ApplyLayout(DefaultAttrs, "center").mLeft
           /\ dom.at[img].mRight = ApplyLayout(DefaultAttrs, "center").mRight

\* C19: a duplicateComponent(id) of a tracked element that is in the document
\* returns an id that named no record before, the clone is the next sibling of
\* the source and carries the new id, the new record has the type and the
\* properties of the source, and the source's record and marker are unchanged.
C19_DuplicateResult ==
    [][\A id \in DOMAIN components :
          ( /\ last = Env
            /\ last'.op = "duplicateComponent"
            /\ last'.ok
            /\ last'.id = id
            /\ IsConnected(dom, components[id].element) )
          => LET el   == components[id].element
                 new  == last'.ret
                 sibs == dom'.ch[Parent(dom', el)]
             IN /\ new \notin DOMAIN components
                /\ new \in DOMAIN components'
                /\ \E i \in 1..(Len(sibs) - 1) :
                      sibs[i] = el /\ sibs[i + 1] = components'[new].element
                /\ dom'.mk[components'[new].element] = new
                /\ components'[new].type = components[id].type
                /\ components'[new].props = components[id].props
                /\ components'[id] = components[id]
                /\ dom'.mk[el] = dom.mk[el]]_vars

\* C20: with two records of the same type (a source and its duplicate), a
\* successful updateComponent or updateImage of one leaves the other's record
\* and the other's element with all it contains unchanged, and both elements
\* stay in the document.
C20_DuplicateDiverges ==
    [][\A i \in DOMAIN components : \A j \in DOMAIN components \ {i} :
          ( /\ last = Env
            /\ last'.op \in {"updateComponent", "updateImage"}
            /\ last'.ok
            /\ last'.id = i
            /\ components[i].type = components[j].type
            /\ IsConnected(dom, components[i].element)
            /\ IsConnected(dom, components[j].element) )
          => /\ j \in DOMAIN components'
             /\ components'[j] = components[j]
             /\ \A n \in {components[j].element} \cup Range(DescOf(dom, components[j].element)) :
                   /\ dom'.at[n] = dom.at[n]
                   /\ dom'.mk[n] = dom.mk[n]
                   /\ dom'.ch[n] = dom.ch[n]
             /\ IsConnected(dom', components[i].element)
             /\ IsConnected(dom', components[j].element)]_vars

C20_Witness ==
    /\ last.op = "updateComponent"
    /\ last.ok
    /\ \E j \in DOMAIN components \ {last.id} :
          /\ components[j].type = "figure"
          /\ components[last.id].type = "figure"
          /\ components[j].props # components[last.id].props
          /\ InEditor(dom, components[j].element)
          /\ InEditor(dom, components[last.id].element)

\* C11: in updateComponent and updateImage, when a listener is called the DOM
\* patch of the call is in the document and the content input equals the
\* editor's content; from the patch to the return of the call nothing else
\* runs: the document, the registry and the pending observer records stay as
\* the patch left them.
C11_PatchSyncNotify ==
    [][/\ Len(last'.calls) > Len(last.calls) =>
             /\ contentInput = InnerHTML(dom, EditorEl)
             /\ last.op \in Range(Running["updateComponent"]) =>
                   ApplyUpdatesToDOM(dom, components[last.id]) = dom
             /\ last.op \in Range(Running["updateImage"]) =>
                   \A k \in DOMAIN last.args \cap {"src", "alt", "width"} :
                      dom.at[ImageOf(dom, components[last.id])][k] = last.args[k]
             /\ UNCHANGED <<dom, contentInput>>
       /\ last.op \in RunningOps =>
             /\ last'.id = last.id
             /\ last'.op \in RunningOps \cup DOMAIN Running
             /\ UNCHANGED <<dom, components, queue>>]_vars

C11_Witness ==
    /\ last.op = "updateImage"
    /\ last.ok
    /\ last.calls # <<>>
    /\ queue # <<>>
    /\ dom.at[ImageOf(dom, components[last.id])].src = "b.png"

\* listeners called in a pass, in the order of the calls
Called(calls) == [i \in 1..Len(calls) |-> calls[i].listener]

\* C21: the function onChange returned for a listener removes that listener and
\* no other, keeping the order of the rest; every pass of updateComponent or
\* updateImage that runs to its end calls exactly the listeners registered at
\* that time, so an unsubscribed listener is not called and the others still are.
C21_UnsubscribeStops ==
    [][/\ (last = Env /\ last'.op = "unsubscribe") =>
              LET l == last'.args[1]
              IN /\ l \notin Range(changeListeners')
                 /\ changeListeners' = SelectSeq(changeListeners, LAMBDA x : x # l)
       /\ (last.op \in RunningOps /\ last'.op \in {"updateComponent", "updateImage"}) =>
              Called(last'.calls) = changeListeners'
       /\ Range(Called(last'.calls)) \subseteq Range(changeListeners')]_vars

C21_Witness ==
    /\ last.op = "unsubscribe"
    /\ last.args[1] = 1
    /\ changeListeners = <<2>>
    /\ DOMAIN components # {}

\* C22: when a listener throws in the notification pass of updateComponent or
\* updateImage, the call ends with that exception instead of returning true, the
\* listeners after the throwing one are not called, and the merged properties,
\* the patched DOM and the synced content input stay as the call made them.
C22_ListenerThrowPropagates ==
    [][(last.op \in RunningOps /\ last'.op \in ThrownOps) =>
          LET comp == components'[last'.id]
              t    == CHOOSE i \in 1..Len(changeListeners) : changeListeners[i] = last'.ret
          IN /\ ~last'.ok
             /\ Called(last'.calls) = SubSeq(changeListeners, 1, t)
             /\ UNCHANGED <<dom, components, contentInput>>
             /\ \A k \in DOMAIN last'.args : comp.props[k] = last'.args[k]
             /\ contentInput' = InnerHTML(dom', EditorEl)]_vars

C22_Witness ==
    /\ last.op \in ThrownOps
    /\ Len(changeListeners) = 2
    /\ Len(last.calls) = 1
    /\ contentInput # <<>>
    /\ contentInput = InnerHTML(dom, EditorEl)

\* C23: upload resolves exactly when the file's type is an allowed image type
\* and its size is at most 10 MB; when it resolves, the id it returns was not in
\* use, getById of it gives the record of this upload and the other records are
\* as before; when it rejects, the error is 'Invalid file type' or 'File too
\* large' and the files are as before.
C23_UploadIffValid ==
    [][(last = Env /\ last'.op = "upload") =>
          LET file == last'.args.file
          IN /\ last'.ok <=> (file.type \in AllowedTypes /\ file.size <= MaxFileSize)
             /\ last'.ok =>
                   /\ last'.ret \notin DOMAIN files
                   /\ DOMAIN files' = DOMAIN files \cup {last'.ret}
                   /\ GetById(files', last'.ret).originalName = file.name
                   /\ GetById(files', last'.ret).mimeType = file.type
                   /\ \A id \in DOMAIN files : files'[id] = files[id]
             /\ ~last'.ok =>
                   /\ last'.args.error \in {"Invalid file type", "File too large"}
                   /\ files' = files]_vars

\* no request is between two of its statements
Quiet == \A r \in RequestIds : requests[r].pc \in {"idle", "done"}

\* the categories reached from c by following parent_id at most k times
RECURSIVE AncestorsOf(_, _, _)
AncestorsOf(d, c, k) ==
    IF k = 0 \/ c \notin DOMAIN d.blog_categories THEN {}
    ELSE LET p == d.blog_categories[c].parent_id
         IN IF p = NoCategory THEN {} ELSE {p} \cup AncestorsOf(d, p, k - 1)

\* C24: when every create, update, reorder and delete request sent so far has
\* completed, no category is reached from itself by following parent_id.
C24_HierarchyAcyclic ==
    Quiet => \A c \in DOMAIN db.blog_categories : c \notin AncestorsOf(db, c, MaxCategories)

\* C25: a reorder request that has entered the loop following parent_id upward
\* from newParentId eventually gets its response.
C25_WalkTerminates ==
    At(1, "reorder", "walk") ~> (requests[1].pc = "done")

\* C26: when a reorder request has answered success,
\* the categories under newParentId include the moved one and carry the sort
\* orders 0..k-1 once each, the moved one has sort order min(newIndex, k-1), and
\* the others are in the order the handler found them in.
C26_ReorderRenumbers ==
    \A r \in RequestIds :
        (requests[r].op = "reorder" /\ requests[r].response = "200") =>
            LET a     == requests[r].args
                rows  == ChildrenOf(db, a.newParentId)
                k     == Cardinality(rows)
                order == [c \in rows |-> db.blog_categories[c].sort_order]
                was   == requests[r].locals.siblingList
            IN /\ a.categoryId \in rows
               /\ {order[c] : c \in rows} = 0..(k - 1)
               /\ order[a.categoryId] = IF a.newIndex < k - 1 THEN a.newIndex ELSE k - 1
               /\ \A i, j \in DOMAIN was : i < j => order[was[i]] < order[was[j]]

\* C27: when no like toggle is between two of its statements, every post's
\* likes counter equals the number of its like rows and is not negative, and no
\* (post, user identifier) has more than one like row.
C27_LikesConsistent ==
    Quiet =>
        \A p \in Posts :
            /\ Likes(db, p) = LikeRowsOf(db, p, UserIdentifiers)
            /\ Likes(db, p) >= 0
            /\ \A u \in UserIdentifiers : LikeRows(db, p, u) <= 1

\* C28: when logout has answered success to a request that carried session
\* token t, admin_sessions holds no row with token t, so the session check of an
\* admin endpoint rejects t.
C28_LogoutInvalidates ==
    \A r \in RequestIds :
        ( /\ requests[r].op = "logout"
          /\ requests[r].response = "200"
          /\ requests[r].args.token # NoToken ) =>
            /\ requests[r].args.token \notin DOMAIN db.admin_sessions
            /\ Authenticate(db, requests[r].args.token) = "401"

\* C29: when no category create or update request is between two of its
\* statements, no two categories have the same slug.
C29_SlugsUnique ==
    Quiet =>
        \A c1, c2 \in DOMAIN db.blog_categories :
            c1 # c2 => db.blog_categories[c1].slug # db.blog_categories[c2].slug

\* C30: at the moment a category delete request for id answers success, the
\* row of id is gone, no category has parent_id = id, and no post-category
\* association names id.
C30_DeleteLeavesNoReference ==
    [][\A r \in RequestIds :
          (At(r, "delete", "delete") /\ requests'[r].response = "200") =>
              LET id == requests[r].args.id
              IN /\ id \notin DOMAIN db'.blog_categories
                 /\ \A c \in DOMAIN db'.blog_categories : db'.blog_categories[c].parent_id # id
                 /\ \A pc \in db'.blog_post_categories : pc[2] # id]_vars
====
